---------------------------- MODULE Spec2Model ----------------------------
(***************************************************************************)
(* Indoor positioning from BLE beacons: the advertisement decoder          *)
(* (parseIBeaconData), the distance estimator (KalmanFilter.filter and     *)
(* rssiToDistance), the position solver (calculatePosition) and the React  *)
(* hook useBLEScanner that drives them from scan callbacks and a timer.    *)
(*                                                                         *)
(* JavaScript numbers are IEEE doubles; the model keeps them as fixed-     *)
(* point integers that fit TLC's 32-bit arithmetic:                        *)
(*   signal strength (rssi, X)      1/1000 dBm   (ScaleX)                  *)
(*   error covariance (P, Q, R)     1/100000     (ScaleP)                  *)
(*   Kalman gain (K)                1/10000      (ScaleK)                  *)
(*   distance                       1/100 m      (ScaleD)                  *)
(*   position                       1/10000 m    (ScalePos)                *)
(***************************************************************************)
EXTENDS Integers, Sequences, FiniteSets, TLC

ScaleX == 1000
ScaleP == 100000
ScaleK == 10000
ScaleD == 100
ScalePos == 10000

Abs(a) == IF a < 0 THEN -a ELSE a
Max(a, b) == IF a > b THEN a ELSE b
Min(a, b) == IF a < b THEN a ELSE b
\* a / b rounded to the nearest integer (b > 0), as a double rounds
RoundDiv(a, b) == (a + (b \div 2)) \div b

(***************************************************************************)
(* kalmanFilter.ts                                                         *)
(***************************************************************************)
ProcessNoise == 10         \* 0.0001
MeasurementNoise == 1000   \* 0.01
InitialP == 100000         \* 1.0

\* new KalmanFilter(): Q, R are never reassigned, so the state is (P, K, X)
NewKalmanFilter == [P |-> InitialP, K |-> 0, X |-> 0]

FilterWithoutProcessNoise(f, measurement) ==
    LET P1 == f.P
        K1 == RoundDiv(P1 * ScaleK, P1 + MeasurementNoise)
        X1 == f.X + RoundDiv(K1 * (measurement - f.X), ScaleK)
        P2 == RoundDiv((ScaleK - K1) * P1, ScaleK)
    IN  [P |-> P2, K |-> K1, X |-> X1]

FilterKeepsPredictedP(f, measurement) ==
    LET P1 == f.P + ProcessNoise
        K1 == RoundDiv(P1 * ScaleK, P1 + MeasurementNoise)
        X1 == f.X + RoundDiv(K1 * (measurement - f.X), ScaleK)
    IN  [P |-> P1, K |-> K1, X |-> X1]

\* KalmanFilter.filter(measurement): the filter after the call; the call
\* returns its X
Filter(f, measurement) ==
    LET P1 == f.P + ProcessNoise
        K1 == RoundDiv(P1 * ScaleK, P1 + MeasurementNoise)
        X1 == f.X + RoundDiv(K1 * (measurement - f.X), ScaleK)
        P2 == RoundDiv((ScaleK - K1) * P1, ScaleK)
    IN  [P |-> P2, K |-> K1, X |-> X1]

(***************************************************************************)
(* beaconUtils.ts: rssiToDistance                                          *)
(***************************************************************************)
DefaultTxPower == -59
MinDistance == 10          \* 0.1 m
MaxDistance == 5000        \* 50 m
SentinelDistance == -100   \* -1.0

\* 10^(k/20) in 1/10000 m for k = -20 .. 35
Pow10Table ==
    << 1000, 1122, 1259, 1413, 1585, 1778, 1995, 2239, 2512, 2818,
       3162, 3548, 3981, 4467, 5012, 5623, 6310, 7079, 7943, 8913,
       10000, 11220, 12589, 14125, 15849, 17783, 19953, 22387, 25119, 28184,
       31623, 35481, 39811, 44668, 50119, 56234, 63096, 70795, 79433, 89125,
       100000, 112202, 125893, 141254, 158489, 177828, 199526, 223872,
       251189, 281838, 316228, 354813, 398107, 446684, 501187, 562341 >>

\* Math.pow(10, n / 20000) in 1/100 m, n = (txPower - rssi) in 1/1000 dB:
\* exact at whole dB, linear in between, and saturated outside -21 .. 35 dB
\* (below 0.1 m and above 50 m respectively)
Pow10Ratio(n) ==
    LET k == n \div 1000
        r == n % 1000
    IN  IF k < -20 THEN 9
        ELSE IF k >= 35 THEN 5623
        ELSE LET lo == Pow10Table[k + 21]
                 hi == Pow10Table[k + 22]
             IN  RoundDiv(lo + ((hi - lo) * r) \div 1000, 100)

DistanceBoundsOff(rssi, txPower) ==
    IF rssi = 0 THEN SentinelDistance
    ELSE Pow10Ratio(txPower * ScaleX - rssi)

\* rssiToDistance(rssi, txPower): rssi in 1/1000 dBm, txPower in dBm
rssiToDistance(rssi, txPower) ==
    IF rssi = 0 THEN SentinelDistance
    ELSE LET distance == Pow10Ratio(txPower * ScaleX - rssi)
         IN  Max(MinDistance, Min(MaxDistance, distance))

(***************************************************************************)
(* trilateration.ts: calculatePosition                                     *)
(***************************************************************************)
ScaleXY == 2               \* beacon coordinates in 1/2 m (the centre is 2.5)
RoomSize == 5              \* the room is 5 m x 5 m

Pos(x, y) == [x |-> x, y |-> y]
\* { x: 2.5, y: 2.5 }
StartPosition == Pos(25000, 25000)

\* !d for a distance looked up in an object: undefined (no such key) or 0
Falsy(beaconDistances, id) ==
    id \notin DOMAIN beaconDistances \/ beaconDistances[id] = 0

ClampAboveOnly(v) == Min(RoomSize * ScalePos, v)

\* Math.max(0, Math.min(5, v)) on a coordinate in 1/10000 m
Clamp(v) == Max(0, Min(RoomSize * ScalePos, v))

SolveLinearFirstPairOnly(x1, y1, q1, x2, y2, q2, x3, y3, q3, currentPosition, clamp) ==
    LET u == (ScaleD * ScaleD) \div (ScaleXY * ScaleXY)
        A == 2 * (x2 - x1)
        B == 2 * (y2 - y1)
        C == q1 - q2 + (- x1 * x1 + x2 * x2 - y1 * y1 + y2 * y2) * u
        D == 2 * (x3 - x2)
        E == 2 * (y3 - y2)
        F == q2 - q3 + (- x2 * x2 + x3 * x3 - y2 * y2 + y3 * y3) * u
        denominator == A * E - B * D
    IN  IF Abs(denominator) * 1000 < ScaleXY * ScaleXY
        THEN currentPosition
        ELSE LET x == ((C * E - F * B) * ScaleXY) \div denominator
                 y == ((A * F) * ScaleXY) \div denominator
             IN  IF clamp THEN Pos(Clamp(x), Clamp(y)) ELSE Pos(x, y)

\* the linear system from Math.pow(r, 2) on: reference points (x1,y1),
\* (x2,y2), (x3,y3) in 1/2 m, squared distances q in 1/10000 m^2; the result
\* in 1/10000 m
SolveLinear(x1, y1, q1, x2, y2, q2, x3, y3, q3, currentPosition, clamp) ==
    LET u == (ScaleD * ScaleD) \div (ScaleXY * ScaleXY)
        A == 2 * (x2 - x1)
        B == 2 * (y2 - y1)
        C == q1 - q2 + (- x1 * x1 + x2 * x2 - y1 * y1 + y2 * y2) * u
        D == 2 * (x3 - x2)
        E == 2 * (y3 - y2)
        F == q2 - q3 + (- x2 * x2 + x3 * x3 - y2 * y2 + y3 * y3) * u
        denominator == A * E - B * D
    IN  IF Abs(denominator) * 1000 < ScaleXY * ScaleXY
        THEN currentPosition
        ELSE LET x == ((C * E - F * B) * ScaleXY) \div denominator
                 y == ((A * F - D * C) * ScaleXY) \div denominator
             IN  IF clamp THEN Pos(Clamp(x), Clamp(y)) ELSE Pos(x, y)

\* the linear system of the solver: reference points (x1,y1), (x2,y2),
\* (x3,y3) in 1/2 m, distances in 1/100 m; the result in 1/10000 m
Trilaterate(x1, y1, r1, x2, y2, r2, x3, y3, r3, currentPosition, clamp) ==
    SolveLinear(x1, y1, r1 * r1, x2, y2, r2 * r2, x3, y3, r3 * r3,
                currentPosition, clamp)

calculatePositionNoGuard(beacons, beaconDistances, currentPosition) ==
    LET d(id) == IF id \in DOMAIN beaconDistances THEN beaconDistances[id] ELSE 0
    IN  Trilaterate(0, 0, d(1001), 5 * ScaleXY, 0, d(1002), 0, 5 * ScaleXY, d(1003),
                    currentPosition, TRUE)

calculatePositionNoClamp(beacons, beaconDistances, currentPosition) ==
    IF Falsy(beaconDistances, 1001) \/ Falsy(beaconDistances, 1002)
       \/ Falsy(beaconDistances, 1003)
    THEN currentPosition
    ELSE Trilaterate(0, 0, beaconDistances[1001],
                     5 * ScaleXY, 0, beaconDistances[1002],
                     0, 5 * ScaleXY, beaconDistances[1003],
                     currentPosition, FALSE)

\* calculatePosition(beacons, beaconDistances, currentPosition) of
\* trilateration.ts: beaconMap is built from `beacons` and never read; the
\* reference points are the literals (0,0), (5,0), (0,5)
calculatePosition(beacons, beaconDistances, currentPosition) ==
    IF Falsy(beaconDistances, 1001) \/ Falsy(beaconDistances, 1002)
       \/ Falsy(beaconDistances, 1003)
    THEN currentPosition
    ELSE Trilaterate(0, 0, beaconDistances[1001],
                     5 * ScaleXY, 0, beaconDistances[1002],
                     0, 5 * ScaleXY, beaconDistances[1003],
                     currentPosition, TRUE)

\* calculatePosition on distances that are square roots: squares[id] is the
\* square of the distance of beacon id, in 1/10000 m^2.  The distance is 0
\* exactly when its square is, and Math.pow(Math.sqrt(q), 2) is q to within
\* one rounding of a double, far below 1/10000 m^2
calculatePositionOfRoots(beacons, squares, currentPosition) ==
    IF Falsy(squares, 1001) \/ Falsy(squares, 1002) \/ Falsy(squares, 1003)
    THEN currentPosition
    ELSE SolveLinear(0, 0, squares[1001],
                     5 * ScaleXY, 0, squares[1002],
                     0, 5 * ScaleXY, squares[1003],
                     currentPosition, TRUE)

(***************************************************************************)
(* beaconUtils.ts: parseIBeaconData.  A buffer is a sequence of bytes      *)
(* 0..255 (offset i of the DataView is element i + 1); a string is a       *)
(* sequence of one-character strings.                                      *)
(***************************************************************************)
MinBufferLength == 25
CompanyIdLE == 76          \* 0x004C
CompanyIdBE == 19456       \* 0x4C00
BeaconTypeMarker == 2      \* 0x02
BeaconLengthMarker == 21   \* 0x15
FrameLength == 21          \* identity 16 + major 2 + minor 2 + txPower 1

HexDigits ==
    << "0", "1", "2", "3", "4", "5", "6", "7",
       "8", "9", "a", "b", "c", "d", "e", "f" >>

getUint8(buf, off) == buf[off + 1]
getUint16LowByteFirst(buf, off, littleEndian) ==
    buf[off + 1] + 256 * buf[off + 2]
getUint16(buf, off, littleEndian) ==
    IF littleEndian THEN buf[off + 1] + 256 * buf[off + 2]
    ELSE 256 * buf[off + 1] + buf[off + 2]
getInt8(buf, off) == IF buf[off + 1] >= 128 THEN buf[off + 1] - 256 ELSE buf[off + 1]

\* b.toString(16).padStart(2, '0')
HexByte(b) == << HexDigits[(b \div 16) + 1], HexDigits[(b % 16) + 1] >>

RECURSIVE JoinHex(_, _, _)
\* the hex of bytes off .. off + n - 1, joined
JoinHex(buf, off, n) ==
    IF n = 0 THEN << >>
    ELSE HexByte(getUint8(buf, off)) \o JoinHex(buf, off + 1, n - 1)

\* the 16 bytes at off as 8-4-4-4-12 groups joined by '-'
FormatUuid(buf, off) ==
    JoinHex(buf, off, 4) \o << "-" >> \o JoinHex(buf, off + 4, 2) \o << "-" >>
    \o JoinHex(buf, off + 6, 2) \o << "-" >> \o JoinHex(buf, off + 8, 2)
    \o << "-" >> \o JoinHex(buf, off + 10, 6)

\* s.includes(pat)
Includes(s, pat) ==
    \E i \in 0 .. (Len(s) - Len(pat)) :
        \A j \in 1 .. Len(pat) : s[i + j] = pat[j]

SignatureA == << "a", "b", "9", "0", "7", "8", "5", "6" >>
SignatureB == << "3", "4", "1", "2" >>

\* null
Null == [ok |-> FALSE, uuid |-> << >>, major |-> 0, minor |-> 0,
         rssi |-> 0, txPower |-> 0]

\* the beaconInfo read at uuidOffset
BeaconInfoAt(buf, uuidOffset, rssi) ==
    [ok |-> TRUE,
     uuid |-> FormatUuid(buf, uuidOffset),
     major |-> getUint16(buf, uuidOffset + 16, FALSE),
     minor |-> getUint16(buf, uuidOffset + 18, FALSE),
     rssi |-> rssi,
     txPower |-> getInt8(buf, uuidOffset + 20)]

\* const formats = [...]: the candidates in the order they are tried
Formats ==
    << [name |-> "Standard Apple iBeacon", companyIdOffset |-> 0,
        companyId |-> CompanyIdLE, typeOffset |-> 2, type |-> BeaconTypeMarker,
        lengthOffset |-> 3, length |-> BeaconLengthMarker, uuidOffset |-> 4],
       [name |-> "Big Endian Company ID", companyIdOffset |-> 0,
        companyId |-> CompanyIdBE, typeOffset |-> 2, type |-> BeaconTypeMarker,
        lengthOffset |-> 3, length |-> BeaconLengthMarker, uuidOffset |-> 4],
       [name |-> "With 2-byte prefix", companyIdOffset |-> 2,
        companyId |-> CompanyIdLE, typeOffset |-> 4, type |-> BeaconTypeMarker,
        lengthOffset |-> 5, length |-> BeaconLengthMarker, uuidOffset |-> 6] >>

\* one pass of the for-loop body: the format is not skipped by a `continue`
FormatMatches(buf, format) ==
    /\ ~ (Len(buf) < format.uuidOffset + FrameLength)
    /\ ~ (/\ getUint16(buf, format.companyIdOffset, TRUE) # format.companyId
          /\ getUint16(buf, format.companyIdOffset, FALSE) # format.companyId)
    /\ ~ (\/ getUint8(buf, format.typeOffset) # format.type
          \/ getUint8(buf, format.lengthOffset) # format.length)

\* the custom beacon detection: the offsets whose window is accepted
CustomOffsets(buf) ==
    IF Len(buf) >= FrameLength
    THEN {offset \in 0 .. (Len(buf) - FrameLength) :
            \/ Includes(FormatUuid(buf, offset), SignatureA)
            \/ Includes(FormatUuid(buf, offset), SignatureB)}
    ELSE {}

\* everything after the byteLength < 25 check
ParseFormats(buf, rssi) ==
    LET M == {i \in DOMAIN Formats : FormatMatches(buf, Formats[i])}
    IN  IF M # {}
        THEN BeaconInfoAt(buf, Formats[CHOOSE i \in M : \A j \in M : i <= j].uuidOffset,
                          rssi)
        ELSE LET O == CustomOffsets(buf)
             IN  IF O # {}
                 THEN BeaconInfoAt(buf, CHOOSE o \in O : \A q \in O : o <= q, rssi)
                 ELSE Null

parseIBeaconDataSearchFirst(manufacturerDataBuffer, rssi) ==
    LET O == CustomOffsets(manufacturerDataBuffer)
    IN  IF Len(manufacturerDataBuffer) < MinBufferLength THEN Null
        ELSE IF O # {}
        THEN BeaconInfoAt(manufacturerDataBuffer,
                          CHOOSE o \in O : \A q \in O : o <= q, rssi)
        ELSE ParseFormats(manufacturerDataBuffer, rssi)

parseIBeaconDataNoLengthCheck(manufacturerDataBuffer, rssi) ==
    ParseFormats(manufacturerDataBuffer, rssi)

\* parseIBeaconData(manufacturerDataBuffer, rssi)
parseIBeaconData(manufacturerDataBuffer, rssi) ==
    IF Len(manufacturerDataBuffer) < MinBufferLength
    THEN Null
    ELSE ParseFormats(manufacturerDataBuffer, rssi)

(***************************************************************************)
(* Index.tsx: the configuration handed to the hook                         *)
(***************************************************************************)
Beacons ==
    << [id |-> 1001, x |-> 0, y |-> 0, name |-> "Corner NW", deviceName |-> "POI-1"],
       [id |-> 1002, x |-> 10, y |-> 0, name |-> "Corner NE", deviceName |-> "POI-2"],
       [id |-> 1003, x |-> 0, y |-> 10, name |-> "Corner SW", deviceName |-> "POI-3"],
       [id |-> 1004, x |-> 10, y |-> 10, name |-> "Corner SE", deviceName |-> "POI-4"],
       [id |-> 1005, x |-> 5, y |-> 5, name |-> "Center", deviceName |-> "POI-5"] >>
BeaconIds == {Beacons[i].id : i \in DOMAIN Beacons}
ReferenceIds == {1001, 1002, 1003}
ConfigTxPower == -59

\* createKalmanFilters(beacons)
createKalmanFilters == [id \in BeaconIds |-> NewKalmanFilter]

(***************************************************************************)
(* The hook useBLEScanner.  One action is one JavaScript task (an event    *)
(* handler, a timer callback, a scan callback, or the continuation of an   *)
(* await), followed by React's render of the state it set and by the       *)
(* start/stop effect, which re-runs on every render: its dependency        *)
(* calculateFromRealBeacons depends on `beacons`, a fresh array on every   *)
(* render of Index.  A BleClient call takes effect when it is made; the    *)
(* await on it resumes in a later task.  initializeBLE is taken once, and  *)
(* BleClient.isEnabled() answers without throwing.                         *)
(*                                                                         *)
(* Time is counted in steps of 1000 ms / TickPeriod.  A timer holds the    *)
(* steps left until it fires, and a due timer fires before time moves on.  *)
(* adsDelivered, sinceLastAd and lastAd record the run and are read by no  *)
(* action other than the bound on ScanResult.                              *)
(***************************************************************************)
\* time steps per 1000 ms
TickPeriod == 1
\* scan results delivered to the beacon callback
MaxAds == 3
\* scanForBeacons invocations in flight
MaxScanCalls == 2
\* a reading counts as fresh for this many time steps
FreshWindow == 1
\* positions the history may hold before the tick is held back
MaxHistory == 2

Off == -1
RetryDelay == 5 * TickPeriod       \* setTimeout(..., 5000)
RestartDelay == TickPeriod         \* setTimeout(..., 1000)
HistoryKeep == 49                  \* prev.slice(-49)

\* the scan results delivered: the advertised name, result.rssi (dBm) and
\* result.txPower (0: not reported)
Ads == { [deviceName |-> "POI-1", rssi |-> 0, txPower |-> 0],
         [deviceName |-> "POI-2", rssi |-> -75, txPower |-> 0],
         [deviceName |-> "POI-3", rssi |-> -75, txPower |-> -65],
         [deviceName |-> "POI-4", rssi |-> -75, txPower |-> 0],
         [deviceName |-> "Unknown", rssi |-> -75, txPower |-> 0] }

VARIABLES
    isScanning, currentPosition, beaconData, positionHistory,
    isNativePlatform, bleError, bleInitialized, bluetoothEnabled,
    scanStatus, devicesFound,
    positionInterval,   \* positionIntervalRef: steps until the tick, or Off
    retryTimeout,       \* retryTimeoutRef: steps until the retry, or Off
    kalmanFilters,      \* Index's kalmanFilters, mutated in place
    scanListener,       \* BleClient's scan listener: "none", "noop", "beacon"
    scanCalls,          \* scanForBeacons invocations in flight, by await
    initPc,             \* initializeBLE: "pending", "done"
    togglePc,           \* toggleScanning: "idle", "bt" (awaiting isEnabled)
    restartPc,          \* restartScanning: "idle", "stop", "timer"
    restartTimer,       \* steps until restartScanning's setTimeout fires
    \* time steps taken
    adsDelivered,       \* scan results delivered so far
    sinceLastAd,        \* steps since the latest accepted advertisement (capped)
    lastAd,             \* per beacon, the latest accepted advertisement
    probe               \* input and result of a pure function under test

hookVars == << isScanning, currentPosition, beaconData, positionHistory,
               isNativePlatform, bleError, bleInitialized, bluetoothEnabled,
               scanStatus, devicesFound, positionInterval, retryTimeout,
               kalmanFilters, scanListener, scanCalls, initPc, togglePc,
               restartPc, restartTimer, adsDelivered, sinceLastAd, lastAd >>
vars == << hookVars, probe >>

NoProbe == [fn |-> "none"]

NoCalls == [bt |-> 0, perm |-> 0, permStop |-> 0, scan |-> 0]
CallsInFlight(c) == c.bt + c.perm + c.permStop + c.scan

\* the hook after its first render and the mount effects
HookInit ==
    /\ isScanning = FALSE
    /\ currentPosition = StartPosition
    /\ beaconData = << >>
    /\ positionHistory = << >>
    /\ isNativePlatform = FALSE
    /\ bleError = "null"
    /\ bleInitialized = FALSE
    /\ bluetoothEnabled = FALSE
    /\ scanStatus = ""
    /\ devicesFound = 0
    /\ positionInterval = Off
    /\ retryTimeout = Off
    /\ kalmanFilters = createKalmanFilters
    /\ scanListener = "none"
    /\ scanCalls = NoCalls
    /\ initPc = "pending"
    /\ togglePc = "idle"
    /\ restartPc = "idle"
    /\ restartTimer = Off
    /\ adsDelivered = 0
    /\ sinceLastAd = 0
    /\ lastAd = [id \in BeaconIds |->
                    [raw |-> -100, rssi |-> -100, txPower |-> ConfigTxPower,
                     before |-> NewKalmanFilter]]

Init == HookInit /\ probe = NoProbe

(***************************************************************************)
(* The start/stop effect (useEffect on isScanning, calculateFromRealBeacons,*)
(* isNativePlatform, bleInitialized) after a task: what the render's       *)
(* cleanup and effect body leave behind.  spawn is 1 when the effect       *)
(* called scanForBeacons, which then awaits BleClient.isEnabled().         *)
(***************************************************************************)
StartStopEffectOnChangeOnly(rendered, native, init, scan, status, listener, interval, retry) ==
    IF ~ (rendered /\ (scan # isScanning \/ native # isNativePlatform
                         \/ init # bleInitialized))
    THEN [isScanning |-> scan, scanStatus |-> status, scanListener |-> listener,
          positionInterval |-> interval, retryTimeout |-> retry, spawn |-> 0]
    ELSE IF scan
    THEN IF native /\ init
         THEN [isScanning |-> TRUE, scanStatus |-> status, scanListener |-> listener,
               positionInterval |-> TickPeriod, retryTimeout |-> Off, spawn |-> 1]
         ELSE [isScanning |-> FALSE,
               scanStatus |-> "Cannot scan - platform/init issue",
               scanListener |-> listener,
               positionInterval |-> Off, retryTimeout |-> Off, spawn |-> 0]
    ELSE [isScanning |-> FALSE,
          scanStatus |-> IF native /\ init THEN "Scan stopped" ELSE status,
          scanListener |-> IF native /\ init THEN "none" ELSE listener,
          positionInterval |-> Off, retryTimeout |-> Off, spawn |-> 0]

StartStopEffect(rendered, native, init, scan, status, listener, interval, retry) ==
    IF ~ rendered
    THEN [isScanning |-> scan, scanStatus |-> status, scanListener |-> listener,
          positionInterval |-> interval, retryTimeout |-> retry, spawn |-> 0]
    ELSE IF scan
    THEN IF native /\ init
         THEN [isScanning |-> TRUE, scanStatus |-> status, scanListener |-> listener,
               positionInterval |-> TickPeriod, retryTimeout |-> Off, spawn |-> 1]
         ELSE [isScanning |-> FALSE,
               scanStatus |-> "Cannot scan - platform/init issue",
               scanListener |-> listener,
               positionInterval |-> Off, retryTimeout |-> Off, spawn |-> 0]
    ELSE [isScanning |-> FALSE,
          scanStatus |-> IF native /\ init THEN "Scan stopped" ELSE status,
          scanListener |-> IF native /\ init THEN "none" ELSE listener,
          positionInterval |-> Off, retryTimeout |-> Off, spawn |-> 0]

\* the primed hook state an effect result e and the calls c (before the
\* effect's own scanForBeacons) give
ApplyEffect(e, c) ==
    /\ isScanning' = e.isScanning
    /\ scanStatus' = e.scanStatus
    /\ scanListener' = e.scanListener
    /\ positionInterval' = e.positionInterval
    /\ retryTimeout' = e.retryTimeout
    /\ scanCalls' = [c EXCEPT !.bt = @ + e.spawn]
    /\ CallsInFlight(c) + e.spawn <= MaxScanCalls

(***************************************************************************)
(* processBeaconByName                                                     *)
(***************************************************************************)
\* Math.round(filteredRSSI * 10) / 10, in 1/10 dBm
RoundTenth(x) == RoundDiv(x, ScaleX \div 10)

\* the BeaconData entry built for a beacon (uuid, major, minor, x, y and
\* name repeat the beacon's configuration and are left out)
NewBeacon(id, rssi, filteredRSSI, calculatedDistance) ==
    [id |-> id,
     rssi |-> rssi,
     filteredRSSI |-> RoundTenth(filteredRSSI),
     distance |-> calculatedDistance,        \* Math.round(d * 100) / 100
     actualDistance |-> calculatedDistance]

ByDeviceName(deviceName) ==
    {i \in DOMAIN Beacons : Beacons[i].deviceName = deviceName}

processBeaconByNameStaleDistance(filters, data, deviceName, rssi, txPowerFromDevice) ==
    LET I == ByDeviceName(deviceName)
    IN  IF I = {} THEN [kalmanFilters |-> filters, beaconData |-> data]
        ELSE LET beacon == Beacons[CHOOSE i \in I : \A j \in I : i <= j]
                 after == Filter(filters[beacon.id], rssi * ScaleX)
                 tx == IF txPowerFromDevice # 0 THEN txPowerFromDevice
                       ELSE ConfigTxPower
             IN  [kalmanFilters |-> [filters EXCEPT ![beacon.id] = after],
                  beaconData |->
                      Append(SelectSeq(data, LAMBDA b : b.id # beacon.id),
                             NewBeacon(beacon.id, rssi, after.X,
                                       rssiToDistance(filters[beacon.id].X, tx)))]

processBeaconByNameDropsOthers(filters, data, deviceName, rssi, txPowerFromDevice) ==
    LET I == ByDeviceName(deviceName)
    IN  IF I = {} THEN [kalmanFilters |-> filters, beaconData |-> data]
        ELSE LET beacon == Beacons[CHOOSE i \in I : \A j \in I : i <= j]
                 after == Filter(filters[beacon.id], rssi * ScaleX)
                 tx == IF txPowerFromDevice # 0 THEN txPowerFromDevice
                       ELSE ConfigTxPower
             IN  [kalmanFilters |-> [filters EXCEPT ![beacon.id] = after],
                  beaconData |->
                      << NewBeacon(beacon.id, rssi, after.X,
                                   rssiToDistance(after.X, tx)) >>]

\* processBeaconByName(deviceName, rssi, txPowerFromDevice) on the filters
\* and the reading list: the filters and the list after the call
processBeaconByName(filters, data, deviceName, rssi, txPowerFromDevice) ==
    LET I == ByDeviceName(deviceName)
    IN  IF I = {} THEN [kalmanFilters |-> filters, beaconData |-> data]
        ELSE LET beacon == Beacons[CHOOSE i \in I : \A j \in I : i <= j]
                 after == Filter(filters[beacon.id], rssi * ScaleX)
                 filteredRSSI == after.X
                 tx == IF txPowerFromDevice # 0 THEN txPowerFromDevice
                       ELSE ConfigTxPower
                 calculatedDistance == rssiToDistance(filteredRSSI, tx)
             IN  [kalmanFilters |-> [filters EXCEPT ![beacon.id] = after],
                  beaconData |->
                      Append(SelectSeq(data, LAMBDA b : b.id # beacon.id),
                             NewBeacon(beacon.id, rssi, filteredRSSI,
                                       calculatedDistance))]

(***************************************************************************)
(* calculateFromRealBeacons                                                *)
(***************************************************************************)
\* distances[beacon.id] = beacon.actualDistance over the reading list
DistancesOf(data) ==
    [id \in {data[i].id : i \in DOMAIN data} |->
        LET I == {i \in DOMAIN data : data[i].id = id}
        IN  data[CHOOSE i \in I : \A j \in I : i >= j].actualDistance]

\* [...prev.slice(-49), newPosition]
PushHistory(prev, newPosition) ==
    Append(SubSeq(prev, Max(1, Len(prev) - HistoryKeep + 1), Len(prev)), newPosition)

calculateFromRealBeaconsAnyCount ==
    IF ~ isScanning \/ ~ isNativePlatform \/ ~ bleInitialized
    THEN [ran |-> FALSE, currentPosition |-> currentPosition,
          positionHistory |-> positionHistory]
    ELSE LET newPosition ==
                 calculatePosition(Beacons, DistancesOf(beaconData), currentPosition)
         IN  [ran |-> TRUE, currentPosition |-> newPosition,
              positionHistory |-> PushHistory(positionHistory, newPosition)]

\* calculateFromRealBeacons(): whether it passed its guards, and the
\* position and history it sets when it did
calculateFromRealBeacons ==
    IF ~ isScanning \/ ~ isNativePlatform \/ ~ bleInitialized
    THEN [ran |-> FALSE, currentPosition |-> currentPosition,
          positionHistory |-> positionHistory]
    ELSE IF Len(beaconData) < 3
    THEN [ran |-> FALSE, currentPosition |-> currentPosition,
          positionHistory |-> positionHistory]
    ELSE LET newPosition ==
                 calculatePosition(Beacons, DistancesOf(beaconData), currentPosition)
         IN  [ran |-> TRUE, currentPosition |-> newPosition,
              positionHistory |-> PushHistory(positionHistory, newPosition)]

(***************************************************************************)
(* Tasks of the hook                                                       *)
(***************************************************************************)
\* initializeBLE(): platform detection, BleClient.initialize() and the
\* first checkBluetoothState()
InitializeBLE ==
    /\ initPc = "pending"
    /\ \E native, supported, enabled \in BOOLEAN :
        LET init == native /\ supported
            status == IF ~ native THEN "Not native platform"
                      ELSE IF ~ supported THEN "BLE not supported"
                      ELSE IF enabled THEN "BLE ready - optimized scanning"
                      ELSE "Bluetooth disabled"
            e == StartStopEffect(TRUE, native, init, isScanning, status,
                                 scanListener, positionInterval, retryTimeout)
        IN  /\ isNativePlatform' = native
            /\ bleInitialized' = init
            /\ bluetoothEnabled' = (init /\ enabled)
            /\ bleError' = IF ~ native THEN "BLE requires native platform (Android/iOS)"
                           ELSE IF ~ supported THEN "BLE not supported on this device"
                           ELSE IF enabled THEN "null"
                           ELSE "Bluetooth is disabled"
            /\ ApplyEffect(e, scanCalls)
    /\ initPc' = "done"
    /\ UNCHANGED << currentPosition, beaconData, positionHistory,
                    devicesFound, kalmanFilters, togglePc, restartPc,
                    restartTimer, adsDelivered, sinceLastAd, lastAd, probe >>

\* the Start/Stop button is disabled unless isNativePlatform && bluetoothEnabled
ButtonEnabled == isNativePlatform /\ bluetoothEnabled

ToggleStopResetsPosition ==
    /\ ButtonEnabled /\ bleInitialized
    /\ isScanning
    /\ currentPosition' = StartPosition
    /\ LET e == StartStopEffect(TRUE, isNativePlatform, bleInitialized, FALSE,
                                scanStatus, scanListener, positionInterval,
                                retryTimeout)
       IN  ApplyEffect(e, scanCalls)
    /\ UNCHANGED << beaconData, positionHistory,
                    isNativePlatform, bleError, bleInitialized,
                    bluetoothEnabled, devicesFound, kalmanFilters, initPc,
                    togglePc, restartPc, restartTimer, adsDelivered,
                    sinceLastAd, lastAd, probe >>

\* toggleScanning() while scanning: setIsScanning(false)
ToggleStop ==
    /\ ButtonEnabled /\ bleInitialized
    /\ isScanning
    /\ LET e == StartStopEffect(TRUE, isNativePlatform, bleInitialized, FALSE,
                                scanStatus, scanListener, positionInterval,
                                retryTimeout)
       IN  ApplyEffect(e, scanCalls)
    /\ UNCHANGED << currentPosition, beaconData, positionHistory,
                    isNativePlatform, bleError, bleInitialized,
                    bluetoothEnabled, devicesFound, kalmanFilters, initPc,
                    togglePc, restartPc, restartTimer, adsDelivered,
                    sinceLastAd, lastAd, probe >>

\* toggleScanning() while not scanning, up to its await checkBluetoothState()
ToggleStart ==
    /\ ButtonEnabled /\ bleInitialized
    /\ ~ isScanning
    /\ togglePc = "idle"
    /\ togglePc' = "bt"
    /\ UNCHANGED << isScanning, currentPosition, beaconData, positionHistory,
                    isNativePlatform, bleError, bleInitialized,
                    bluetoothEnabled, scanStatus, devicesFound,
                    positionInterval, retryTimeout, kalmanFilters,
                    scanListener, scanCalls, initPc, restartPc, restartTimer,
                    adsDelivered, sinceLastAd, lastAd, probe >>

\* toggleScanning() after the await: its closure saw isScanning = false
ToggleStartDone ==
    /\ togglePc = "bt"
    /\ \E enabled \in BOOLEAN :
        IF enabled
        THEN /\ bluetoothEnabled' = TRUE
             /\ beaconData' = << >>
             /\ positionHistory' = << >>
             /\ bleError' = "null"
             /\ devicesFound' = 0
             /\ ApplyEffect(StartStopEffect(TRUE, isNativePlatform, bleInitialized,
                                            TRUE, "Bluetooth enabled", scanListener,
                                            positionInterval, retryTimeout),
                            scanCalls)
        ELSE /\ bluetoothEnabled' = FALSE
             /\ bleError' = "Bluetooth is disabled"
             /\ ApplyEffect(StartStopEffect(bluetoothEnabled
                                              \/ bleError # "Bluetooth is disabled"
                                              \/ scanStatus # "Bluetooth disabled",
                                            isNativePlatform, bleInitialized,
                                            isScanning, "Bluetooth disabled",
                                            scanListener, positionInterval,
                                            retryTimeout),
                            scanCalls)
             /\ UNCHANGED << beaconData, positionHistory, devicesFound >>
    /\ togglePc' = "idle"
    /\ UNCHANGED << currentPosition, isNativePlatform, bleInitialized,
                    kalmanFilters, initPc, restartPc, restartTimer,
                    adsDelivered, sinceLastAd, lastAd, probe >>

\* the callback given to BleClient.requestLEScan, on one scan result
ScanResult ==
    /\ scanListener = "beacon"
    /\ adsDelivered < MaxAds
    /\ \E result \in Ads :
        LET deviceName == result.deviceName
            rssi == result.rssi
            txPower == result.txPower
            isTargetBeacon == ByDeviceName(deviceName) # {}
            rssiArg == IF rssi # 0 THEN rssi ELSE -100        \* result.rssi || -100
            txArg == IF txPower # 0 THEN txPower ELSE ConfigTxPower
            r == IF isTargetBeacon
                 THEN processBeaconByName(kalmanFilters, beaconData, deviceName,
                                          rssiArg, txArg)
                 ELSE [kalmanFilters |-> kalmanFilters, beaconData |-> beaconData]
            e == StartStopEffect(TRUE, isNativePlatform, bleInitialized, isScanning,
                                 IF isTargetBeacon THEN "Live" ELSE scanStatus,
                                 scanListener, positionInterval, retryTimeout)
        IN  /\ kalmanFilters' = r.kalmanFilters
            /\ beaconData' = r.beaconData
            /\ ApplyEffect(e, scanCalls)
            /\ IF isTargetBeacon
               THEN LET id == Beacons[CHOOSE i \in ByDeviceName(deviceName) : TRUE].id
                    IN  /\ sinceLastAd' = 0
                        /\ lastAd' = [lastAd EXCEPT ![id] =
                                        [raw |-> rssi, rssi |-> rssiArg,
                                         txPower |-> txArg,
                                         before |-> kalmanFilters[id]]]
               ELSE UNCHANGED << sinceLastAd, lastAd >>
    /\ devicesFound' = devicesFound + 1
    /\ adsDelivered' = adsDelivered + 1
    /\ UNCHANGED << currentPosition, positionHistory, isNativePlatform,
                    bleError, bleInitialized, bluetoothEnabled, initPc,
                    togglePc, restartPc, restartTimer, probe >>

\* the setInterval(calculateFromRealBeacons, 1000) callback
Tick ==
    /\ positionInterval = 0
    /\ LET r == calculateFromRealBeacons
       IN  /\ r.ran => Len(positionHistory) < MaxHistory
           /\ currentPosition' = r.currentPosition
           /\ positionHistory' = r.positionHistory
           /\ ApplyEffect(StartStopEffect(r.ran, isNativePlatform, bleInitialized,
                                          isScanning,
                                          IF r.ran THEN "Live Position" ELSE scanStatus,
                                          scanListener, TickPeriod, retryTimeout),
                          scanCalls)
    /\ UNCHANGED << beaconData, isNativePlatform, bleError, bleInitialized,
                    bluetoothEnabled, devicesFound, kalmanFilters, initPc,
                    togglePc, restartPc, restartTimer, adsDelivered,
                    sinceLastAd, lastAd, probe >>

\* time passes: one step on every armed timer; a due timer fires first
Advance ==
    /\ positionInterval # 0 /\ retryTimeout # 0 /\ restartTimer # 0
    /\ sinceLastAd' = Min(sinceLastAd + 1, FreshWindow + 1)
    /\ positionInterval' = IF positionInterval > 0 THEN positionInterval - 1 ELSE Off
    /\ retryTimeout' = IF retryTimeout > 0 THEN retryTimeout - 1 ELSE Off
    /\ restartTimer' = IF restartTimer > 0 THEN restartTimer - 1 ELSE Off
    /\ UNCHANGED << isScanning, currentPosition, beaconData, positionHistory,
                    isNativePlatform, bleError, bleInitialized,
                    bluetoothEnabled, scanStatus, devicesFound,
                    kalmanFilters, scanListener, scanCalls, initPc, togglePc,
                    restartPc, adsDelivered, lastAd, probe >>

(***************************************************************************)
(* scanForBeacons(), one action per await.  It is entered from the effect  *)
(* (StartStopEffect.spawn) and from the retry timer, with isNativePlatform *)
(* and bleInitialized true in its closure.                                 *)
(***************************************************************************)
\* after await checkBluetoothState(); on success requestAllPermissions()
\* calls BleClient.requestLEScan with an empty callback
ScanBtDone ==
    /\ scanCalls.bt > 0
    /\ \E enabled \in BOOLEAN :
        LET c == [scanCalls EXCEPT !.bt = @ - 1]
        IN  IF enabled
            THEN /\ bluetoothEnabled' = TRUE
                 /\ bleError' = bleError
                 /\ ApplyEffect(
                        StartStopEffect(~ bluetoothEnabled
                                          \/ scanStatus # "Bluetooth enabled",
                                        isNativePlatform, bleInitialized, isScanning,
                                        "Bluetooth enabled", "noop",
                                        positionInterval, retryTimeout),
                        [c EXCEPT !.perm = @ + 1])
            ELSE /\ bluetoothEnabled' = FALSE
                 /\ bleError' = "Bluetooth is disabled"
                 /\ ApplyEffect(
                        StartStopEffect(bluetoothEnabled
                                          \/ bleError # "Bluetooth is disabled"
                                          \/ scanStatus # "Bluetooth disabled",
                                        isNativePlatform, bleInitialized, isScanning,
                                        "Bluetooth disabled", scanListener,
                                        positionInterval, RetryDelay),
                        c)
    /\ UNCHANGED << currentPosition, beaconData, positionHistory,
                    isNativePlatform, bleInitialized, devicesFound,
                    kalmanFilters, initPc, togglePc, restartPc, restartTimer,
                    adsDelivered, sinceLastAd, lastAd, probe >>

\* after the permission probe's requestLEScan: on success it calls
\* BleClient.stopLEScan()
ScanPermDone ==
    /\ scanCalls.perm > 0
    /\ \E granted \in BOOLEAN :
        LET c == [scanCalls EXCEPT !.perm = @ - 1]
        IN  IF granted
            THEN /\ bleError' = bleError
                 /\ ApplyEffect(
                        StartStopEffect(FALSE, isNativePlatform, bleInitialized,
                                        isScanning, scanStatus, "none",
                                        positionInterval, retryTimeout),
                        [c EXCEPT !.permStop = @ + 1])
            ELSE /\ bleError' = "Permission denied"
                 /\ ApplyEffect(
                        StartStopEffect(bleError # "Permission denied"
                                          \/ scanStatus # "Permission failed",
                                        isNativePlatform, bleInitialized, isScanning,
                                        "Permission failed", scanListener,
                                        positionInterval, RetryDelay),
                        c)
    /\ UNCHANGED << currentPosition, beaconData, positionHistory,
                    isNativePlatform, bleInitialized, bluetoothEnabled,
                    devicesFound, kalmanFilters, initPc, togglePc, restartPc,
                    restartTimer, adsDelivered, sinceLastAd, lastAd, probe >>

\* after the probe's stopLEScan: 'Permissions granted', then the real
\* BleClient.requestLEScan with the beacon callback
ScanPermStopDone ==
    /\ scanCalls.permStop > 0
    /\ bleError' = "null"
    /\ devicesFound' = 0
    /\ ApplyEffect(
           StartStopEffect(bleError # "null" \/ devicesFound # 0
                             \/ scanStatus # "Optimized scanning active...",
                           isNativePlatform, bleInitialized, isScanning,
                           "Optimized scanning active...", "beacon",
                           positionInterval, retryTimeout),
           [scanCalls EXCEPT !.permStop = @ - 1, !.scan = @ + 1])
    /\ UNCHANGED << currentPosition, beaconData, positionHistory,
                    isNativePlatform, bleInitialized, bluetoothEnabled,
                    kalmanFilters, initPc, togglePc, restartPc, restartTimer,
                    adsDelivered, sinceLastAd, lastAd, probe >>

\* after the real requestLEScan: started, or the catch block
ScanStartDone ==
    /\ scanCalls.scan > 0
    /\ \E started \in BOOLEAN :
        LET c == [scanCalls EXCEPT !.scan = @ - 1]
        IN  IF started
            THEN /\ bleError' = bleError
                 /\ ApplyEffect(
                        StartStopEffect(scanStatus # "Scanning optimized for performance...",
                                        isNativePlatform, bleInitialized, isScanning,
                                        "Scanning optimized for performance...",
                                        scanListener, positionInterval, retryTimeout),
                        c)
            ELSE /\ bleError' = "Scan failed"
                 /\ ApplyEffect(
                        StartStopEffect(isScanning \/ bleError # "Scan failed"
                                          \/ scanStatus # "Scan error",
                                        isNativePlatform, bleInitialized, FALSE,
                                        "Scan error", "none",
                                        positionInterval, RetryDelay),
                        c)
    /\ UNCHANGED << currentPosition, beaconData, positionHistory,
                    isNativePlatform, bleInitialized, bluetoothEnabled,
                    devicesFound, kalmanFilters, initPc, togglePc, restartPc,
                    restartTimer, adsDelivered, sinceLastAd, lastAd, probe >>

\* the 5 s retry timer: scanForBeacons() again, from the timer's closure
RetryFire ==
    /\ retryTimeout = 0
    /\ retryTimeout' = Off
    /\ scanCalls' = [scanCalls EXCEPT !.bt = @ + 1]
    /\ CallsInFlight(scanCalls) < MaxScanCalls
    /\ UNCHANGED << isScanning, currentPosition, beaconData, positionHistory,
                    isNativePlatform, bleError, bleInitialized,
                    bluetoothEnabled, scanStatus, devicesFound,
                    positionInterval, kalmanFilters, scanListener, initPc,
                    togglePc, restartPc, restartTimer, adsDelivered,
                    sinceLastAd, lastAd, probe >>

(***************************************************************************)
(* restartScanning() and resetScanning()                                   *)
(***************************************************************************)
\* restartScanning() up to its await BleClient.stopLEScan()
RestartScanning ==
    /\ ButtonEnabled
    /\ restartPc = "idle"
    /\ ApplyEffect(StartStopEffect(isScanning, isNativePlatform, bleInitialized,
                                   FALSE, scanStatus,
                                   IF isNativePlatform /\ bleInitialized
                                   THEN "none" ELSE scanListener,
                                   Off, Off),
                   scanCalls)
    /\ restartPc' = "stop"
    /\ UNCHANGED << currentPosition, beaconData, positionHistory,
                    isNativePlatform, bleError, bleInitialized,
                    bluetoothEnabled, devicesFound, kalmanFilters, initPc,
                    togglePc, restartTimer, adsDelivered, sinceLastAd,
                    lastAd, probe >>

\* restartScanning() after the await: reset the data, arm the 1 s timer
RestartContinue ==
    /\ restartPc = "stop"
    /\ beaconData' = << >>
    /\ positionHistory' = << >>
    /\ bleError' = "null"
    /\ devicesFound' = 0
    /\ ApplyEffect(StartStopEffect(TRUE, isNativePlatform, bleInitialized,
                                   isScanning, "Manual restart...", scanListener,
                                   positionInterval, retryTimeout),
                   scanCalls)
    /\ restartPc' = "timer"
    /\ restartTimer' = RestartDelay
    /\ UNCHANGED << currentPosition, isNativePlatform, bleInitialized,
                    bluetoothEnabled, kalmanFilters, initPc, togglePc,
                    adsDelivered, sinceLastAd, lastAd, probe >>

\* restartScanning()'s timer: setIsScanning(true)
RestartFire ==
    /\ restartTimer = 0
    /\ ApplyEffect(StartStopEffect(~ isScanning, isNativePlatform, bleInitialized,
                                   TRUE, scanStatus, scanListener,
                                   positionInterval, retryTimeout),
                   scanCalls)
    /\ restartPc' = "idle"
    /\ restartTimer' = Off
    /\ UNCHANGED << currentPosition, beaconData, positionHistory,
                    isNativePlatform, bleError, bleInitialized,
                    bluetoothEnabled, devicesFound, kalmanFilters, initPc,
                    togglePc, adsDelivered, sinceLastAd, lastAd, probe >>

ResetScanningKeepsHistory ==
    /\ currentPosition' = StartPosition
    /\ beaconData' = << >>
    /\ bleError' = "null"
    /\ devicesFound' = 0
    /\ ApplyEffect(StartStopEffect(TRUE, isNativePlatform, bleInitialized, FALSE,
                                   "Reset complete", scanListener,
                                   positionInterval, retryTimeout),
                   scanCalls)
    /\ UNCHANGED << positionHistory, isNativePlatform, bleInitialized,
                    bluetoothEnabled, kalmanFilters, initPc, togglePc, restartPc,
                    restartTimer, adsDelivered, sinceLastAd, lastAd, probe >>

ResetScanningLeavesTick ==
    /\ currentPosition' = StartPosition
    /\ beaconData' = << >>
    /\ positionHistory' = << >>
    /\ bleError' = "null"
    /\ devicesFound' = 0
    /\ ApplyEffect(StartStopEffect(FALSE, isNativePlatform, bleInitialized, FALSE,
                                   "Reset complete", scanListener,
                                   positionInterval, retryTimeout),
                   scanCalls)
    /\ UNCHANGED << isNativePlatform, bleInitialized, bluetoothEnabled,
                    kalmanFilters, initPc, togglePc, restartPc, restartTimer,
                    adsDelivered, sinceLastAd, lastAd, probe >>

\* resetScanning()
ResetScanning ==
    /\ currentPosition' = StartPosition
    /\ beaconData' = << >>
    /\ positionHistory' = << >>
    /\ bleError' = "null"
    /\ devicesFound' = 0
    /\ ApplyEffect(StartStopEffect(TRUE, isNativePlatform, bleInitialized, FALSE,
                                   "Reset complete", scanListener,
                                   positionInterval, retryTimeout),
                   scanCalls)
    /\ UNCHANGED << isNativePlatform, bleInitialized, bluetoothEnabled,
                    kalmanFilters, initPc, togglePc, restartPc, restartTimer,
                    adsDelivered, sinceLastAd, lastAd, probe >>

Next ==
    \/ InitializeBLE
    \/ ToggleStart
    \/ ToggleStartDone
    \/ ToggleStop
    \/ ScanBtDone
    \/ ScanPermDone
    \/ ScanPermStopDone
    \/ ScanStartDone
    \/ RetryFire
    \/ ScanResult
    \/ Tick
    \/ Advance
    \/ RestartScanning
    \/ RestartContinue
    \/ RestartFire
    \/ ResetScanning

Spec == Init /\ [][Next]_vars

\* what the platform's scheduling gives: time passes, a due timer's callback
\* runs, and an awaited BleClient call comes back.  The user's buttons and
\* the arrival of scan results are under no obligation.
Scheduling ==
    /\ WF_vars(InitializeBLE)
    /\ WF_vars(Advance)
    /\ WF_vars(Tick)
    /\ WF_vars(RetryFire)
    /\ WF_vars(RestartFire)
    /\ WF_vars(ToggleStartDone)
    /\ WF_vars(RestartContinue)
    /\ WF_vars(ScanBtDone)
    /\ WF_vars(ScanPermDone)
    /\ WF_vars(ScanPermStopDone)
    /\ WF_vars(ScanStartDone)

SpecLive == Init /\ [][Next]_vars /\ Scheduling

(***************************************************************************)
(* The pure functions on their own.  probe holds one call: its arguments,  *)
(* whether it has returned, and what it returned.  The hook stays as       *)
(* constructed.                                                            *)
(***************************************************************************)
\* ---- rssiToDistance ----
\* signal values in 1/1000 dBm: 0, -150 dBm, the filter's first outputs for
\* -100 and -75 dBm, values in and next to whole dB, and a positive one
DistRssi == {0, -150000, -100000, -99010, -80000, -75000, -74257, -59000,
             -38500, -38001, -24000, -1, 1, 20000}
DistTxPower == {-128, -100, -65, -59, -4, 0, 20, 127}

InitDist ==
    /\ HookInit
    /\ probe \in [fn : {"rssiToDistance"}, rssi : DistRssi, txPower : DistTxPower,
                  done : {FALSE}, result : {0}]

CallRssiToDistance ==
    /\ probe.fn = "rssiToDistance" /\ ~ probe.done
    /\ probe' = [probe EXCEPT !.done = TRUE,
                              !.result = rssiToDistance(probe.rssi, probe.txPower)]
    /\ UNCHANGED hookVars

NextDist == CallRssiToDistance

SpecDist == InitDist /\ [][NextDist]_vars

\* ---- calculatePosition ----
\* a distance per reference beacon, in 1/100 m: 0, the sentinel -1.0, 1 m,
\* 3 m, 8 m; a beacon not in `present` has no key in the object
SolveDistance == {0, SentinelDistance, 100, 300, 800}

\* the configured beacons, and the same with the three reference beacons on
\* one line: (0,0), (2.5,0), (5,0)
CollinearBeacons ==
    [Beacons EXCEPT ![2] = [@ EXCEPT !.x = 5, !.y = 0],
                    ![3] = [@ EXCEPT !.x = 10, !.y = 0]]
SolveBeacons == {Beacons, CollinearBeacons}
SolvePrevious == {StartPosition, Pos(10000, 40000)}

InitSolve ==
    /\ HookInit
    /\ \E present \in SUBSET ReferenceIds, d \in [ReferenceIds -> SolveDistance],
          b \in SolveBeacons, prev \in SolvePrevious :
         probe = [fn |-> "calculatePosition", beacons |-> b,
                  beaconDistances |-> [id \in present |-> d[id]],
                  currentPosition |-> prev, done |-> FALSE, result |-> prev]

CallCalculatePosition ==
    /\ probe.fn = "calculatePosition" /\ ~ probe.done
    /\ probe' = [probe EXCEPT !.done = TRUE,
                              !.result = calculatePosition(probe.beacons,
                                                           probe.beaconDistances,
                                                           probe.currentPosition)]
    /\ UNCHANGED hookVars

NextSolve == CallCalculatePosition

SpecSolve == InitSolve /\ [][NextSolve]_vars

\* ---- calculatePosition on exact distances ----
\* a true point on the 0.5 m grid of the room, walls and corners included,
\* in 1/2 m; the distances handed over are the exact Euclidean distances from
\* it to (0,0), (5,0) and (0,5)
TruePoints == (0 .. RoomSize * ScaleXY) \X (0 .. RoomSize * ScaleXY)

\* the squared distance between two points given in 1/2 m, in 1/10000 m^2
SquaredDistance(px, py, bx, by) ==
    ((px - bx) * (px - bx) + (py - by) * (py - by))
    * ((ScaleD * ScaleD) \div (ScaleXY * ScaleXY))

InitExact ==
    /\ HookInit
    /\ \E t \in TruePoints, prev \in SolvePrevious :
         probe = [fn |-> "calculatePositionOfRoots", px |-> t[1], py |-> t[2],
                  currentPosition |-> prev, done |-> FALSE, result |-> prev]

CallCalculatePositionOfRoots ==
    /\ probe.fn = "calculatePositionOfRoots" /\ ~ probe.done
    /\ probe' =
         [probe EXCEPT
            !.done = TRUE,
            !.result =
               calculatePositionOfRoots(
                   Beacons,
                   [id \in ReferenceIds |->
                       LET I == {i \in DOMAIN Beacons : Beacons[i].id = id}
                           b == Beacons[CHOOSE i \in I : TRUE]
                       IN  SquaredDistance(probe.px, probe.py, b.x, b.y)],
                   probe.currentPosition)]
    /\ UNCHANGED hookVars

NextExact == CallCalculatePositionOfRoots

SpecExact == InitExact /\ [][NextExact]_vars

\* ---- parseIBeaconData ----
\* identities, each as its 16 bytes and as the text it is to decode to: the
\* deployment's ab907856-3412-3412-3412-341278563412, one with neither
\* 'ab907856' nor '3412' in its text, and one whose first bytes read as the
\* iBeacon header 4c 00 02 15
TargetIdentity ==
    [bytes |-> << 171, 144, 120, 86, 52, 18, 52, 18,
                  52, 18, 52, 18, 120, 86, 52, 18 >>,
     text |-> << "a", "b", "9", "0", "7", "8", "5", "6", "-", "3", "4", "1",
                 "2", "-", "3", "4", "1", "2", "-", "3", "4", "1", "2", "-",
                 "3", "4", "1", "2", "7", "8", "5", "6", "3", "4", "1", "2" >>]
GenericIdentity ==
    [bytes |-> << 0, 17, 34, 51, 68, 85, 102, 119,
                  136, 153, 170, 187, 204, 221, 238, 255 >>,
     text |-> << "0", "0", "1", "1", "2", "2", "3", "3", "-", "4", "4", "5",
                 "5", "-", "6", "6", "7", "7", "-", "8", "8", "9", "9", "-",
                 "a", "a", "b", "b", "c", "c", "d", "d", "e", "e", "f", "f" >>]
HeaderLikeIdentity ==
    [bytes |-> << 76, 0, 2, 21, 52, 18, 0, 0,
                  0, 0, 0, 0, 0, 0, 0, 1 >>,
     text |-> << "4", "c", "0", "0", "0", "2", "1", "5", "-", "3", "4", "1",
                 "2", "-", "0", "0", "0", "0", "-", "0", "0", "0", "0", "-",
                 "0", "0", "0", "0", "0", "0", "0", "0", "0", "0", "0", "1" >>]
DecodeIdentities == {TargetIdentity, GenericIdentity, HeaderLikeIdentity}
DecodeMajors == {0, 258, 65535}
DecodeMinors == {0, 513, 65535}
DecodeTxPowers == {-128, -59, 127}
\* the header ahead of the frame: the company id 0x004C low byte first, the
\* same high byte first, two more bytes ahead of the first, no header, or
\* no header and two zero bytes ahead of the frame
DecodeLayouts == {"standard", "swapped", "prefixed", "headerless", "shifted"}
\* zero bytes after the frame
DecodePads == {0, 4}
\* bytes kept of the buffer: a short buffer is a prefix of a full one
DecodeKeep == 0 .. 31

Header(layout) ==
    CASE layout = "standard" -> << 76, 0, 2, 21 >>
      [] layout = "swapped" -> << 0, 76, 2, 21 >>
      [] layout = "prefixed" -> << 2, 1, 76, 0, 2, 21 >>
      [] layout = "headerless" -> << >>
      [] layout = "shifted" -> << 0, 0 >>

\* identity, major and minor high byte first, txPower as a signed byte
Frame(identity, major, minor, txPower) ==
    identity.bytes \o << major \div 256, major % 256, minor \div 256, minor % 256,
                        (txPower + 256) % 256 >>

EncodeBuffer(layout, identity, major, minor, txPower, pad) ==
    Header(layout) \o Frame(identity, major, minor, txPower) \o [i \in 1 .. pad |-> 0]

InitDecode ==
    /\ HookInit
    /\ \E layout \in DecodeLayouts, identity \in DecodeIdentities,
          major \in DecodeMajors, minor \in DecodeMinors,
          txPower \in DecodeTxPowers, pad \in DecodePads, keep \in DecodeKeep :
         LET full == EncodeBuffer(layout, identity, major, minor, txPower, pad)
         IN  /\ keep <= Len(full)
             /\ keep >= MinBufferLength => keep = Len(full)
             /\ probe = [fn |-> "parseIBeaconData", layout |-> layout,
                         identity |-> identity, major |-> major, minor |-> minor,
                         txPower |-> txPower, whole |-> (keep = Len(full)),
                         buffer |-> SubSeq(full, 1, keep), rssi |-> -75,
                         done |-> FALSE, result |-> Null]

CallParseIBeaconData ==
    /\ probe.fn = "parseIBeaconData" /\ ~ probe.done
    /\ probe' = [probe EXCEPT !.done = TRUE,
                              !.result = parseIBeaconData(probe.buffer, probe.rssi)]
    /\ UNCHANGED hookVars

NextDecode == CallParseIBeaconData

SpecDecode == InitDecode /\ [][NextDecode]_vars

\* ---- KalmanFilter.filter ----
\* calls of filter() on one filter
MaxFilterCalls == 50
\* calls when every call may bring another measurement
MaxAnyCalls == 5
\* measurements, in dBm
FilterSignals == {-100, -75, -59, -30}

\* a fresh filter, the signal c it is to be fed when the signal is constant,
\* and whether it is
InitFilter ==
    /\ HookInit
    /\ probe \in [fn : {"filter"}, c : FilterSignals, constant : BOOLEAN,
                  calls : {0}, filter : {NewKalmanFilter},
                  before : {NewKalmanFilter}]

\* filter(c), once more
FilterConstant ==
    /\ probe.fn = "filter" /\ probe.constant
    /\ probe.calls < MaxFilterCalls
    /\ probe' = [probe EXCEPT !.calls = @ + 1,
                              !.before = probe.filter,
                              !.filter = Filter(probe.filter, probe.c * ScaleX)]
    /\ UNCHANGED hookVars

\* filter(measurement) with any measurement
FilterAny ==
    /\ probe.fn = "filter" /\ ~ probe.constant
    /\ probe.calls < MaxAnyCalls
    /\ \E measurement \in FilterSignals :
         probe' = [probe EXCEPT !.calls = @ + 1,
                                !.before = probe.filter,
                                !.filter = Filter(probe.filter,
                                                  measurement * ScaleX)]
    /\ UNCHANGED hookVars

NextFilter == FilterConstant \/ FilterAny

SpecFilter == InitFilter /\ [][NextFilter]_vars

(***************************************************************************)
(* hooks/useBLEScanner.ts: the scan callback that decodes manufacturer     *)
(* data and matches beacons by identity and major (processBeaconData).     *)
(* The hook is scanning; each step is one scan result with one             *)
(* manufacturer data entry and no service uuids.  probe holds the result   *)
(* delivered last.                                                         *)
(***************************************************************************)
\* const uuid = "AB907856-3412-3412-3412-341278563412"
TargetUuid ==
    << "A", "B", "9", "0", "7", "8", "5", "6", "-", "3", "4", "1", "2", "-",
       "3", "4", "1", "2", "-", "3", "4", "1", "2", "-",
       "3", "4", "1", "2", "7", "8", "5", "6", "3", "4", "1", "2" >>

\* s.toLowerCase() on hex digits and '-'
ToLowerCase(s) ==
    [i \in DOMAIN s |->
        CASE s[i] = "A" -> "a" [] s[i] = "B" -> "b" [] s[i] = "C" -> "c"
          [] s[i] = "D" -> "d" [] s[i] = "E" -> "e" [] s[i] = "F" -> "f"
          [] OTHER -> s[i]]

\* s.replace(/-/g, '')
StripHyphens(s) == SelectSeq(s, LAMBDA c : c # "-")

IdentityMatchesAny(beaconInfo) == TRUE

\* cleanBeaconUuid === cleanTargetUuid
IdentityMatches(beaconInfo) ==
    StripHyphens(ToLowerCase(beaconInfo.uuid)) = StripHyphens(ToLowerCase(TargetUuid))

\* the BeaconData entry built from a decoded advertisement (uuid, x, y and
\* name are left out; major is the beacon's id); rssi is a whole number of
\* dBm, which Math.round leaves as it is
NewBeaconData(id, beaconInfo, filteredRSSI, calculatedDistance) ==
    [id |-> id,
     minor |-> beaconInfo.minor,
     rssi |-> beaconInfo.rssi,
     filteredRSSI |-> RoundTenth(filteredRSSI),
     distance |-> calculatedDistance,
     actualDistance |-> calculatedDistance]

processBeaconDataKeepsOld(filters, data, beaconInfo) ==
    LET I == {i \in DOMAIN Beacons : Beacons[i].id = beaconInfo.major}
    IN  IF I = {} THEN [kalmanFilters |-> filters, beaconData |-> data, id |-> 0]
        ELSE LET beacon == Beacons[CHOOSE i \in I : \A j \in I : i <= j]
                 after == Filter(filters[beacon.id], beaconInfo.rssi * ScaleX)
                 tx == IF beaconInfo.txPower # 0 THEN beaconInfo.txPower
                       ELSE ConfigTxPower
             IN  [kalmanFilters |-> [filters EXCEPT ![beacon.id] = after],
                  beaconData |->
                      Append(data, NewBeaconData(beacon.id, beaconInfo, after.X,
                                                 rssiToDistance(after.X, tx))),
                  id |-> beacon.id]

\* processBeaconData(beaconInfo) on the filters and the reading list: the
\* filters and the list after the call, and the id of the beacon found (0:
\* unknown major)
processBeaconData(filters, data, beaconInfo) ==
    LET I == {i \in DOMAIN Beacons : Beacons[i].id = beaconInfo.major}
    IN  IF I = {} THEN [kalmanFilters |-> filters, beaconData |-> data, id |-> 0]
        ELSE LET beacon == Beacons[CHOOSE i \in I : \A j \in I : i <= j]
                 after == Filter(filters[beacon.id], beaconInfo.rssi * ScaleX)
                 filteredRSSI == after.X
                 tx == IF beaconInfo.txPower # 0 THEN beaconInfo.txPower
                       ELSE ConfigTxPower
                 calculatedDistance == rssiToDistance(filteredRSSI, tx)
             IN  [kalmanFilters |-> [filters EXCEPT ![beacon.id] = after],
                  beaconData |->
                      Append(SelectSeq(data, LAMBDA b : b.id # beacon.id),
                             NewBeaconData(beacon.id, beaconInfo, filteredRSSI,
                                           calculatedDistance)),
                  id |-> beacon.id]

\* the body of manufacturerKeys.forEach for one entry: the filters, the list
\* and the status after it
onManufacturerData(filters, data, status, arrayBuffer, rssi) ==
    LET unchanged == [kalmanFilters |-> filters, beaconData |-> data,
                      scanStatus |-> status, id |-> 0]
        beaconInfo == parseIBeaconData(arrayBuffer,
                                       IF rssi # 0 THEN rssi ELSE -100)
    IN  IF ~ (Len(arrayBuffer) >= MinBufferLength) THEN unchanged
        ELSE IF ~ beaconInfo.ok THEN unchanged
        ELSE IF ~ IdentityMatches(beaconInfo) THEN unchanged
        ELSE LET r == processBeaconData(filters, data, beaconInfo)
             IN  [kalmanFilters |-> r.kalmanFilters, beaconData |-> r.beaconData,
                  scanStatus |-> "Found beacon", id |-> r.id]

\* manufacturer data delivered: the deployment's identity with the majors of
\* two known beacons (one also behind a 2-byte prefix and with another
\* minor), a frame cut to 24 bytes, a frame no layout or signature matches,
\* another identity with a known major, and the deployment's identity with
\* an unknown major
AdvertBuffers ==
    { EncodeBuffer("standard", TargetIdentity, 1001, 1, ConfigTxPower, 0),
      EncodeBuffer("prefixed", TargetIdentity, 1001, 2, 0, 0),
      EncodeBuffer("standard", TargetIdentity, 1002, 1, ConfigTxPower, 0),
      SubSeq(EncodeBuffer("standard", TargetIdentity, 1001, 1, ConfigTxPower, 0),
             1, MinBufferLength - 1),
      EncodeBuffer("headerless", GenericIdentity, 1001, 1, ConfigTxPower, 4),
      EncodeBuffer("standard", GenericIdentity, 1001, 1, ConfigTxPower, 0),
      EncodeBuffer("standard", TargetIdentity, 258, 1, ConfigTxPower, 0) }
\* result.rssi in dBm
AdvertRssi == {-75, -60}
\* result.txPower in dBm; 0 when the platform gives none (undefined)
AdvertTxPower == {0, -65}

\* the hook while it scans, but for the position, the history and probe
ScanningHook ==
    /\ isScanning = TRUE
    /\ beaconData = << >>
    /\ isNativePlatform = TRUE
    /\ bleError = "null"
    /\ bleInitialized = TRUE
    /\ bluetoothEnabled = TRUE
    /\ scanStatus = "Scanning for beacons..."
    /\ devicesFound = 0
    /\ positionInterval = 2 * TickPeriod
    /\ retryTimeout = Off
    /\ kalmanFilters = createKalmanFilters
    /\ scanListener = "beacon"
    /\ scanCalls = NoCalls
    /\ initPc = "done"
    /\ togglePc = "idle"
    /\ restartPc = "idle"
    /\ restartTimer = Off
    /\ adsDelivered = 0
    /\ sinceLastAd = 0
    /\ lastAd = [id \in BeaconIds |->
                    [raw |-> -100, rssi |-> -100, txPower |-> ConfigTxPower,
                     hint |-> 0, minor |-> 0, before |-> NewKalmanFilter]]

InitAdvert ==
    /\ ScanningHook
    /\ currentPosition \in SolvePrevious
    /\ positionHistory \in {<< >>, << currentPosition >>}
    /\ probe = [fn |-> "processBeaconData", buffer |-> << >>, rssi |-> 0]

\* the callback given to BleClient.requestLEScan, on one scan result
ScanResultData ==
    /\ probe.fn = "processBeaconData"
    /\ scanListener = "beacon"
    /\ adsDelivered < MaxAds
    /\ \E arrayBuffer \in AdvertBuffers, rssi \in AdvertRssi,
          txPowerFromDevice \in AdvertTxPower :
        LET r == onManufacturerData(kalmanFilters, beaconData, scanStatus,
                                    arrayBuffer, rssi)
            beaconInfo == parseIBeaconData(arrayBuffer, rssi)
        IN  /\ kalmanFilters' = r.kalmanFilters
            /\ beaconData' = r.beaconData
            /\ scanStatus' = r.scanStatus
            /\ lastAd' = IF r.id = 0 THEN lastAd
                          ELSE [lastAd EXCEPT ![r.id] =
                                  [raw |-> rssi, rssi |-> rssi,
                                   txPower |-> IF beaconInfo.txPower # 0
                                               THEN beaconInfo.txPower
                                               ELSE ConfigTxPower,
                                   hint |-> txPowerFromDevice,
                                   minor |-> beaconInfo.minor,
                                   before |-> kalmanFilters[r.id]]]
            /\ probe' = [probe EXCEPT !.buffer = arrayBuffer, !.rssi = rssi]
    /\ devicesFound' = devicesFound + 1
    /\ adsDelivered' = adsDelivered + 1
    /\ UNCHANGED << isScanning, currentPosition, positionHistory,
                    isNativePlatform, bleError, bleInitialized,
                    bluetoothEnabled, positionInterval, retryTimeout,
                    scanListener, scanCalls, initPc, togglePc, restartPc,
                    restartTimer, sinceLastAd >>

NextAdvert == ScanResultData

SpecAdvert == InitAdvert /\ [][NextAdvert]_vars

(***************************************************************************)
(* The position history under ticks that solve, as hooks/useBLEScanner.ts  *)
(* and part_002 keep it.  The solve's results are a walk of one step per   *)
(* tick, so that the entries of the history are told apart.                *)
(***************************************************************************)
\* ticks taken
MaxTicks == 60
\* the walk's step, in 1/10000 m
WalkStep == 100

HistoryKeepData == 50              \* prev.slice(-50)

\* [...prev.slice(-50), newPosition]
PushHistoryData(prev, newPosition) ==
    Append(SubSeq(prev, Max(1, Len(prev) - HistoryKeepData + 1), Len(prev)),
           newPosition)

\* the position the n-th solve returns
WalkPosition(n) == Pos(n * WalkStep, StartPosition.y)

InitHistory ==
    /\ ScanningHook
    /\ currentPosition = StartPosition
    /\ positionHistory = << >>
    /\ probe \in [fn : {"calculateFromRealBeacons"},
                  source : {"hooks/useBLEScanner.ts", "part_002"},
                  ticks : {0}]

\* a tick whose calculateFromRealBeacons solves: setCurrentPosition and
\* setPositionHistory
SolveTick ==
    /\ probe.fn = "calculateFromRealBeacons"
    /\ probe.ticks < MaxTicks
    /\ LET newPosition == WalkPosition(probe.ticks + 1)
       IN  /\ currentPosition' = newPosition
           /\ positionHistory' =
                  IF probe.source = "part_002"
                  THEN PushHistory(positionHistory, newPosition)
                  ELSE PushHistoryData(positionHistory, newPosition)
    /\ probe' = [probe EXCEPT !.ticks = @ + 1]
    /\ UNCHANGED << isScanning, beaconData, isNativePlatform, bleError,
                    bleInitialized, bluetoothEnabled, scanStatus,
                    devicesFound, positionInterval, retryTimeout,
                    kalmanFilters, scanListener, scanCalls, initPc, togglePc,
                    restartPc, restartTimer, adsDelivered, sinceLastAd,
                    lastAd >>

NextHistory == SolveTick

SpecHistory == InitHistory /\ [][NextHistory]_vars

\* ---- the UUID comparison of the two hooks in hooks/useBLEScanner.ts ----
\* the target's identity with its last hex digit changed
NearIdentity ==
    [bytes |-> [TargetIdentity.bytes EXCEPT ![16] = 19],
     text |-> [TargetIdentity.text EXCEPT ![36] = "3"]]
ComparedIdentities == {TargetIdentity, NearIdentity, GenericIdentity}

\* the uuid the hook is given: the target's, in upper or lower case, with or
\* without hyphens
ConfiguredUuids ==
    {TargetUuid, ToLowerCase(TargetUuid), StripHyphens(TargetUuid),
     StripHyphens(ToLowerCase(TargetUuid))}

\* first hook: cleanBeaconUuid === cleanTargetUuid
CleanUuidMatches(beaconUuid, uuid) ==
    StripHyphens(ToLowerCase(beaconUuid)) = StripHyphens(ToLowerCase(uuid))

\* second hook: beaconInfo.uuid.toLowerCase() === uuid.toLowerCase()
LowerCaseUuidMatches(beaconUuid, uuid) ==
    ToLowerCase(beaconUuid) = ToLowerCase(uuid)

InitCompare ==
    /\ HookInit
    /\ \E hook \in {"first", "second"}, uuid \in ConfiguredUuids,
          layout \in {"standard", "prefixed"},
          identity \in ComparedIdentities, rssi \in AdvertRssi :
         probe = [fn |-> "compareUuid", hook |-> hook, uuid |-> uuid,
                  identity |-> identity,
                  buffer |-> EncodeBuffer(layout, identity, 1001, 1,
                                          ConfigTxPower, 0),
                  rssi |-> rssi, done |-> FALSE, accepted |-> FALSE]

\* the first hook's scan callback up to the comparison, on manufacturer data
CompareFirst ==
    /\ probe.fn = "compareUuid" /\ probe.hook = "first" /\ ~ probe.done
    /\ LET beaconInfo == parseIBeaconData(probe.buffer, probe.rssi)
       IN  probe' = [probe EXCEPT
                       !.done = TRUE,
                       !.accepted = /\ Len(probe.buffer) >= MinBufferLength
                                    /\ beaconInfo.ok
                                    /\ CleanUuidMatches(beaconInfo.uuid,
                                                        probe.uuid)]
    /\ UNCHANGED hookVars

\* the second hook's scan callback up to the comparison, on the data under
\* manufacturer key '76'
CompareSecond ==
    /\ probe.fn = "compareUuid" /\ probe.hook = "second" /\ ~ probe.done
    /\ LET beaconInfo == parseIBeaconData(probe.buffer, probe.rssi)
       IN  probe' = [probe EXCEPT
                       !.done = TRUE,
                       !.accepted = /\ beaconInfo.ok
                                    /\ LowerCaseUuidMatches(beaconInfo.uuid,
                                                            probe.uuid)]
    /\ UNCHANGED hookVars

NextCompare == CompareFirst \/ CompareSecond

SpecCompare == InitCompare /\ [][NextCompare]_vars

(***************************************************************************)
(* Properties                                                              *)
(***************************************************************************)
Returned(fn) == probe.fn = fn /\ probe.done

\* C1: calculatePosition returns the supplied previous position whenever one
\* of the distances of beacons 1001, 1002, 1003 is missing or not strictly
\* positive (0 and the sentinel -1.0 included).
C1_PreviousWhenDistanceUnusable ==
    Returned("calculatePosition")
    /\ (\E id \in ReferenceIds :
            \/ id \notin DOMAIN probe.beaconDistances
            \/ probe.beaconDistances[id] <= 0)
    => probe.result = probe.currentPosition

\* C2: in every reachable state of the scanner currentPosition lies in the
\* room: 0 <= x <= 5 and 0 <= y <= 5.
C2_PositionInRoom ==
    /\ 0 <= currentPosition.x /\ currentPosition.x <= RoomSize * ScalePos
    /\ 0 <= currentPosition.y /\ currentPosition.y <= RoomSize * ScalePos

\* a tick has solved, and the solve was pushed to the wall of the room
C2_Witness ==
    /\ Len(positionHistory) > 0
    /\ currentPosition = Pos(RoomSize * ScalePos, RoomSize * ScalePos)

\* a step in which the position tick moved currentPosition (only the tick
\* lengthens positionHistory)
TickMoved ==
    /\ currentPosition' # currentPosition
    /\ Len(positionHistory') > Len(positionHistory)

HasReading(id) ==
    \E i \in DOMAIN beaconData :
        beaconData[i].id = id /\ beaconData[i].actualDistance # 0

C4_CollinearReturnsPrevious ==
    Returned("calculatePosition") /\ probe.beacons = CollinearBeacons
    => probe.result = probe.currentPosition

\* C5: at every point where a tick may run, each reading's raw signal,
\* smoothed signal and distance derive from one advertisement and from the
\* filter state after that advertisement's complete filter step.
C5_ReadingsFromOneAdvertisement ==
    \A i \in DOMAIN beaconData :
        LET b == beaconData[i]
            ad == lastAd[b.id]
            after == Filter(ad.before, ad.rssi * ScaleX)
        IN  /\ kalmanFilters[b.id] = after
            /\ b.rssi = ad.rssi
            /\ b.filteredRSSI = RoundTenth(after.X)
            /\ b.distance = rssiToDistance(after.X, ad.txPower)
            /\ b.actualDistance = b.distance

\* a tick has solved from the readings of three advertisements, each taken
\* through its own filter
C5_Witness ==
    /\ Len(positionHistory) > 0
    /\ Len(beaconData) >= 3
    /\ \A id \in ReferenceIds : kalmanFilters[id] # NewKalmanFilter

\* C6: while scanning, processing an advertisement never cancels or postpones
\* the pending tick: the time left until it is the same after the callback.
C6_AdvertisementKeepsPendingTick ==
    [][adsDelivered' = adsDelivered + 1 /\ isScanning /\ positionInterval # Off
         => positionInterval' = positionInterval]_vars

C8_ZeroSignalGivesSentinel ==
    \A i \in DOMAIN beaconData :
        lastAd[beaconData[i].id].raw = 0
        => beaconData[i].distance = SentinelDistance

\* the buffer decoded to the values it was built from
RoundTrip ==
    /\ probe.result.ok
    /\ probe.result.uuid = probe.identity.text
    /\ probe.result.major = probe.major
    /\ probe.result.minor = probe.minor
    /\ probe.result.txPower = probe.txPower

\* a whole buffer of at least 25 bytes has been decoded
DecodedWhole ==
    Returned("parseIBeaconData") /\ probe.whole
    /\ Len(probe.buffer) >= MinBufferLength

HasSignature(text) == Includes(text, SignatureA) \/ Includes(text, SignatureB)
LooksHeadered(buf) == \E i \in DOMAIN Formats : FormatMatches(buf, Formats[i])

C10_ShortBufferIsNull ==
    Returned("parseIBeaconData") /\ Len(probe.buffer) < MinBufferLength
    => probe.result = Null

\* a 24-byte buffer that holds a whole headerless frame with the
\* deployment's identity, which the search would accept, returned null
C10_Witness ==
    /\ Returned("parseIBeaconData")
    /\ Len(probe.buffer) = MinBufferLength - 1
    /\ probe.layout = "headerless" /\ probe.identity = TargetIdentity
    /\ CustomOffsets(probe.buffer) # {}
    /\ probe.result = Null

\* format i is the first candidate of the list that the buffer matches
FirstMatch(buf, i) ==
    /\ FormatMatches(buf, Formats[i])
    /\ \A j \in 1 .. (i - 1) : ~ FormatMatches(buf, Formats[j])

\* the lowest offset a set of offsets holds
Lowest(O) == CHOOSE o \in O : \A q \in O : o <= q

\* C11: parseIBeaconData returns the fields read at the identity offset of
\* the first candidate, in the order of the list, whose header markers match;
\* a buffer matching the offset-0 layout and the 2-byte-prefix layout gives
\* the offset-0 fields; the search decides nothing while a candidate matches.
C11_FirstMatchingCandidateWins ==
    DecodedWhole
    => /\ \A i \in DOMAIN Formats :
            FirstMatch(probe.buffer, i)
            => probe.result = BeaconInfoAt(probe.buffer, Formats[i].uuidOffset,
                                           probe.rssi)
       /\ FormatMatches(probe.buffer, Formats[1])
          /\ FormatMatches(probe.buffer, Formats[3])
            => probe.result = BeaconInfoAt(probe.buffer, Formats[1].uuidOffset,
                                           probe.rssi)

\* a buffer whose first matching candidate is the third, the one behind a
\* 2-byte prefix, and whose window at a lower offset the search would accept
\* with other fields: the candidate's fields were returned
C11_Witness ==
    /\ DecodedWhole
    /\ FirstMatch(probe.buffer, 3)
    /\ CustomOffsets(probe.buffer) # {}
    /\ Lowest(CustomOffsets(probe.buffer)) < Formats[3].uuidOffset
    /\ probe.result = BeaconInfoAt(probe.buffer, Formats[3].uuidOffset, probe.rssi)
    /\ probe.result # BeaconInfoAt(probe.buffer,
                                   Lowest(CustomOffsets(probe.buffer)), probe.rssi)

\* the first two bytes of the window at offset are the first two bytes of a
\* signature: ab 90 or 34 12
StartsWithSignature(buf, offset) ==
    JoinHex(buf, offset, 2) \in {SubSeq(SignatureA, 1, 4), SignatureB}

\* C12: when no candidate matches, the search accepts an offset only if the
\* first two bytes of its 16-byte window are the signature prefix, takes the
\* lowest such offset and returns the fields read there; when no window
\* starts with the signature prefix the result is null.
C12_SearchAcceptsSignaturePrefixOnly ==
    DecodedWhole /\ ~ LooksHeadered(probe.buffer)
    => LET S == {offset \in 0 .. (Len(probe.buffer) - FrameLength) :
                    StartsWithSignature(probe.buffer, offset)}
       IN  IF S # {}
           THEN probe.result = BeaconInfoAt(probe.buffer, Lowest(S), probe.rssi)
           ELSE probe.result = Null

\* the readings a list holds for beacon id
ReadingsOf(data, id) == {data[i] : i \in {j \in DOMAIN data : data[j].id = id}}

\* the scan result is dropped: its payload does not decode, or the identity
\* decoded is not the target's, or the major decoded is no known beacon's id
Dropped(arrayBuffer, rssi) ==
    LET beaconInfo == parseIBeaconData(arrayBuffer, rssi)
    IN  \/ ~ beaconInfo.ok
        \/ StripHyphens(beaconInfo.uuid) # StripHyphens(ToLowerCase(TargetUuid))
        \/ beaconInfo.major \notin BeaconIds

\* C13: a scan result that is dropped (no decode, another identity, or an
\* unknown beacon id) leaves every filter, every reading, currentPosition and
\* positionHistory as they were.
C13_DroppedAdvertisementChangesNothing ==
    [][adsDelivered' = adsDelivered + 1 /\ probe'.fn = "processBeaconData"
       /\ Dropped(probe'.buffer, probe'.rssi)
         => UNCHANGED << kalmanFilters, beaconData, currentPosition,
                         positionHistory >>]_vars

\* the result delivered last decoded to the target's identity with a major
\* that is no beacon's id, after two results that were accepted: the
\* filters and readings they left are still there
C13_Witness ==
    /\ probe.fn = "processBeaconData" /\ adsDelivered = MaxAds
    /\ parseIBeaconData(probe.buffer, probe.rssi).ok
    /\ IdentityMatches(parseIBeaconData(probe.buffer, probe.rssi))
    /\ parseIBeaconData(probe.buffer, probe.rssi).major \notin BeaconIds
    /\ Len(beaconData) = MaxAds - 1
    /\ \A i \in DOMAIN beaconData :
           kalmanFilters[beaconData[i].id] # NewKalmanFilter

\* C14: processing an accepted advertisement of beacon b changes b's filter
\* and b's reading only: the filter (P, K, X) and the reading of every other
\* beacon c are the same after the scan callback as before it.
C14_AdvertisementTouchesOneBeacon ==
    [][adsDelivered' = adsDelivered + 1 /\ probe = NoProbe
         => \A c \in BeaconIds :
                lastAd'[c] = lastAd[c]
                => /\ kalmanFilters'[c] = kalmanFilters[c]
                   /\ ReadingsOf(beaconData', c) = ReadingsOf(beaconData, c)]_vars

\* three beacons have been heard once each: each filter is one step from
\* its initial state and each reading is there, whatever came after it
C14_Witness ==
    /\ probe = NoProbe /\ adsDelivered = MaxAds
    /\ Len(beaconData) = MaxAds
    /\ \A i \in DOMAIN beaconData :
           /\ lastAd[beaconData[i].id].before = NewKalmanFilter
           /\ kalmanFilters[beaconData[i].id]
                = Filter(NewKalmanFilter, beaconData[i].rssi * ScaleX)

\* C15: every explicit restart resets the filters: after resetScanning, and
\* after restartScanning has stopped the scan and cleared the data, each
\* beacon's filter is at its defaults (P = 1.0, X = 0).
C15_RestartResetsFilters ==
    [][ResetScanning \/ RestartContinue
         => kalmanFilters' = createKalmanFilters]_vars

\* C16 as stated: currentPosition is changed by the position solve of a tick
\* and by nothing else.
C16_OnlyTickMovesPosition ==
    [][currentPosition' # currentPosition => TickMoved]_vars

\* C16 amended: currentPosition is changed by the position solve of a tick
\* and by resetScanning, which puts it back to (2.5, 2.5); the scan callback,
\* toggleScanning and restartScanning leave it as it is.
C16_OnlyTickAndResetMovePosition ==
    [][currentPosition' # currentPosition
         => \/ TickMoved
            \/ ResetScanning /\ currentPosition' = StartPosition]_vars

\* a tick has moved the position, scanning was stopped afterwards, and the
\* position is still where the tick put it
C16_Witness ==
    /\ probe = NoProbe
    /\ ~ isScanning /\ scanListener = "none"
    /\ Len(positionHistory) > 0
    /\ currentPosition # StartPosition

\* C17: after any sequence of scan results the reading list holds at most
\* one reading per beacon id, a beacon that was heard has its reading, and
\* that reading is the one built from the beacon's latest accepted
\* advertisement.
C17_OneLatestReadingPerBeacon ==
    /\ \A i, j \in DOMAIN beaconData :
           beaconData[i].id = beaconData[j].id => i = j
    /\ \A id \in BeaconIds :
           kalmanFilters[id] # NewKalmanFilter => ReadingsOf(beaconData, id) # {}
    /\ \A i \in DOMAIN beaconData :
           LET b == beaconData[i]
               ad == lastAd[b.id]
               after == Filter(ad.before, ad.rssi * ScaleX)
           IN  /\ b.minor = ad.minor
               /\ b.rssi = ad.rssi
               /\ b.filteredRSSI = RoundTenth(after.X)
               /\ b.actualDistance = rssiToDistance(after.X, ad.txPower)

\* beacon 1001 was heard twice, the second time with another minor, and
\* beacon 1002 once in between or around: two readings, 1001's from its
\* second advertisement
C17_Witness ==
    /\ probe.fn = "processBeaconData" /\ adsDelivered = MaxAds
    /\ Len(beaconData) = 2
    /\ \E i \in DOMAIN beaconData :
           /\ beaconData[i].id = 1001
           /\ beaconData[i].minor = 2
           /\ lastAd[1001].before # NewKalmanFilter

\* C18: positionHistory holds the last 50 positions: its length never
\* exceeds 50, and its entries are the latest solves in the order they were
\* made, the newest last (so the one evicted is the oldest).
C18_HistoryHoldsLastFifty ==
    probe.fn = "calculateFromRealBeacons"
    => /\ Len(positionHistory) <= 50
       /\ \A i \in DOMAIN positionHistory :
              positionHistory[i]
                = WalkPosition(probe.ticks - Len(positionHistory) + i)

\* the true point of the probe, in 1/10000 m
TruePosition == Pos(probe.px * (ScalePos \div ScaleXY), probe.py * (ScalePos \div ScaleXY))

\* C19 as stated: from the exact distances of any true point of the room
\* to (0,0), (5,0), (0,5), calculatePosition returns the true point.
C19_ExactFromAnyPoint ==
    Returned("calculatePositionOfRoots") => probe.result = TruePosition

\* C19 amended: from the exact distances of a true point of the room that
\* is none of the three reference points, calculatePosition returns the true
\* point; at a reference point one distance is 0 and the previous position
\* is returned.
C19_ExactAwayFromReferencePoints ==
    Returned("calculatePositionOfRoots")
    => IF \E i \in DOMAIN Beacons :
              /\ Beacons[i].id \in ReferenceIds
              /\ Beacons[i].x = probe.px /\ Beacons[i].y = probe.py
       THEN probe.result = probe.currentPosition
       ELSE probe.result = TruePosition

\* the true point (2, 1), r1^2 = 5, r2^2 = 10, r3^2 = 20, solved from a
\* previous position elsewhere
C19_Witness ==
    /\ Returned("calculatePositionOfRoots")
    /\ probe.px = 2 * ScaleXY /\ probe.py = 1 * ScaleXY
    /\ probe.currentPosition # Pos(2 * ScalePos, 1 * ScalePos)
    /\ probe.result = Pos(2 * ScalePos, 1 * ScalePos)

\* the call did not decline: every reference beacon has a non-zero distance
Solved ==
    /\ Returned("calculatePosition")
    /\ \A id \in ReferenceIds : ~ Falsy(probe.beaconDistances, id)

\* the raw solved coordinates of the probe's distances: x = (r1^2 - r2^2 +
\* 25) / 10, y = (r1^2 - r3^2 + 25) / 10, in 1/10000 m
RawSolved ==
    LET q(id) == probe.beaconDistances[id] * probe.beaconDistances[id]
        side == RoomSize * ScaleD
    IN  Pos((q(1001) - q(1002) + side * side) \div (2 * RoomSize),
            (q(1001) - q(1003) + side * side) \div (2 * RoomSize))

\* v held to [0, 5 m], written out
Held(v) ==
    IF v < 0 THEN 0 ELSE IF v > RoomSize * ScalePos THEN RoomSize * ScalePos ELSE v

\* C20: when calculatePosition does not decline, each coordinate of its
\* result is the raw solved coordinate if that lies in [0, 5], 0 if it is
\* below 0 and 5 if it is above 5, x and y each on its own.
C20_CoordinatesClampedIndependently ==
    Solved => /\ probe.result.x = Held(RawSolved.x)
              /\ probe.result.y = Held(RawSolved.y)

\* a solve whose raw x lies below 0 and whose raw y lies inside the room:
\* x is held at 0 and y is the raw y
C20_Witness ==
    /\ Solved
    /\ RawSolved.x < 0
    /\ 0 < RawSolved.y /\ RawSolved.y < RoomSize * ScalePos
    /\ probe.result = Pos(0, RawSolved.y)

\* C21: from a fresh filter on, P never grows from one filter() call to the
\* next, whatever the measurements.
C21_CovarianceNeverGrows ==
    probe.fn = "filter" => probe.filter.P <= probe.before.P

\* fifty calls have brought P from 1.0 down to below 0.001
C21_Witness ==
    /\ probe.fn = "filter" /\ probe.calls = 50
    /\ probe.before.P < InitialP
    /\ probe.filter.P * 1000 < ScaleP

\* C22: fed the same signal c again and again, a fresh filter's estimate X
\* never moves away from c from one call to the next, and after 50 calls it
\* is within 0.01 of c.
C22_EstimateConverges ==
    probe.fn = "filter" /\ probe.constant
    => /\ Abs(probe.filter.X - probe.c * ScaleX)
            <= Abs(probe.before.X - probe.c * ScaleX)
       /\ probe.calls >= 50
            => Abs(probe.filter.X - probe.c * ScaleX) * 100 <= ScaleX

\* the signal -100 dBm fed 50 times: the estimate has come from 0 to within
\* 0.01 of it
C22_Witness ==
    /\ probe.fn = "filter" /\ probe.constant /\ probe.calls = 50
    /\ probe.c = -100
    /\ Abs(probe.filter.X - probe.c * ScaleX) * 100 <= ScaleX

\* C23: when the scan result carries a transmit power, the distance of the
\* reading is computed with it; the power embedded in the payload (or the
\* configured one) is used only when the scan result carries none.
C23_HintOverridesEmbeddedTxPower ==
    probe.fn = "processBeaconData"
    => \A i \in DOMAIN beaconData :
           LET b == beaconData[i]
               ad == lastAd[b.id]
               after == Filter(ad.before, ad.rssi * ScaleX)
           IN  b.actualDistance
                 = rssiToDistance(after.X, IF ad.hint # 0 THEN ad.hint
                                           ELSE ad.txPower)

\* C24: whichever way the target uuid is configured (upper or lower case,
\* with or without hyphens), an advertisement is accepted exactly when the
\* identity it carries is the target's.
C24_IdentityIgnoresCaseAndHyphens ==
    probe.fn = "compareUuid" /\ probe.done
    => (probe.accepted <=> probe.identity = TargetIdentity)

C26_NoScanCallFromAdvertisementOrTick ==
    [][(isScanning /\ isScanning'
        /\ (adsDelivered' = adsDelivered + 1
            \/ Len(positionHistory') > Len(positionHistory)))
       => CallsInFlight(scanCalls') <= CallsInFlight(scanCalls)]_vars

\* C27: after BleClient.requestLEScan has thrown in scanForBeacons, and as
\* long as the user presses nothing (any button clears or replaces the
\* error), scanForBeacons is eventually invoked again.
C27_FailedScanIsRetried ==
    (bleError = "Scan failed" /\ CallsInFlight(scanCalls) = 0)
    ~> (CallsInFlight(scanCalls) > 0 \/ bleError # "Scan failed")

\* C28: a tick leaves currentPosition and positionHistory as they are unless
\* isScanning, isNativePlatform and bleInitialized are all true and at least
\* three readings are present.
C28_TickSolvesOnlyWhenGuardsHold ==
    [][Tick => \/ /\ isScanning /\ isNativePlatform /\ bleInitialized
                  /\ Len(beaconData) >= 3
               \/ /\ currentPosition' = currentPosition
                  /\ positionHistory' = positionHistory]_vars

\* a tick has solved from three readings: the position it set is the last
\* of the history and is not the one the hook started with
C28_Witness ==
    /\ isScanning /\ isNativePlatform /\ bleInitialized
    /\ Len(beaconData) >= 3
    /\ positionHistory # << >>
    /\ currentPosition # StartPosition

\* C29: in every reachable state a non-empty positionHistory ends with
\* currentPosition.
C29_HistoryEndsWithCurrentPosition ==
    positionHistory # << >>
    => positionHistory[Len(positionHistory)] = currentPosition

\* two ticks have solved: the history holds both positions and ends with
\* the current one, which is not the one the hook started with
C29_Witness ==
    /\ Len(positionHistory) = 2
    /\ positionHistory[2] = currentPosition
    /\ currentPosition # StartPosition

\* the hook as resetScanning and the render after it leave it
ResetState ==
    /\ ~ isScanning
    /\ currentPosition = StartPosition
    /\ beaconData = << >>
    /\ positionHistory = << >>
    /\ bleError = "null"
    /\ devicesFound = 0
    /\ positionInterval = Off
    /\ retryTimeout = Off
    /\ scanStatus = IF isNativePlatform /\ bleInitialized THEN "Scan stopped"
                    ELSE "Reset complete"
    /\ isNativePlatform /\ bleInitialized => scanListener = "none"

=============================================================================
